---- MODULE Spec2Model ----
(***************************************************************************)
(* The per-process file-descriptor table and the file I/O gate of          *)
(* src/userprog/syscall.c, as a state machine of one user process issuing  *)
(* system calls.  Every system call is one atomic step: a process runs as  *)
(* one kernel thread and the handlers below do not yield between their     *)
(* statements except inside the filesystem.                                *)
(*                                                                         *)
(* A descriptor slot holds a `struct file *`.  The code stores the         *)
(* standard streams as the pointer values 1 and 2 and compares pointers    *)
(* with these integers, so slot values are integers here too: 0 is the     *)
(* null pointer, 1 and 2 the stream sentinels, larger values the addresses *)
(* of file objects obtained from filesys_open.  The cursor and the content *)
(* of a file object live in the filesystem module and are not modelled; an *)
(* access to a field of the object is recorded in last.fs.                 *)
(*                                                                         *)
(* The module also holds the anonymous-page swap operations of             *)
(* src/vm/anon.c (specification SwapSpec) and the filesystem lock as       *)
(* several processes contend for it in read and write (LockSpec).  The     *)
(* three parts share no state: each specification moves its own variables  *)
(* and leaves the others at their initial values.                          *)
(***************************************************************************)
EXTENDS Integers, FiniteSets, Sequences, TLC

\* ---------------------------------------------------------------- bounds
\* Table size (FDCOUNT_LIMIT of threads/thread.h, scaled down).
FDCOUNT_LIMIT == 4
\* Number of file objects filesys_open can hand out in one run.
MaxHandles == 3
\* Number of system calls one run issues.
MaxCalls == 3
\* Largest length / position argument of read, write, seek.
MaxLen == 1

\* Slots of the swap disk: disk_size (swap_disk) / SECTORS_PER_PAGE.
MaxSlots == 3
\* Sectors per page: CEILING (PGSIZE, DISK_SECTOR_SIZE), scaled down.
SECTORS_PER_PAGE == 2
\* Anonymous pages created in one run, and frames of physical memory.
MaxPages == 3
MaxFrames == 2
\* Number of page operations one run issues.
MaxSwapOps == 7
\* Processes contending for the filesystem lock.
MaxProcs == 3

\* ------------------------------------------------------------- constants
NULL == 0
STDIN == 1
STDOUT == 2

Fds == 0..(FDCOUNT_LIMIT - 1)
\* Descriptor arguments a user program may pass: one value outside the table
\* on each side.
FdArgs == -1..FDCOUNT_LIMIT
\* Addresses of file objects: every pointer value above the two sentinels.
Handles == (STDOUT + 1)..(STDOUT + MaxHandles)
Sizes == 0..MaxLen

VARIABLES
    fdTable,       \* curr->fdTable: Fds -> pointer value
    fdIdx,         \* curr->fdIdx: the scan mark of process_add_file
    stdin_count,   \* curr->stdin_count
    stdout_count,  \* curr->stdout_count
    dupCount,      \* file_obj->dupCount of every file object
    hstat,         \* file object: "unused" (never returned by filesys_open),
                   \* "open", or "closed" (released by file_close)
    pstate,        \* "running", "exited" (exit(-1)), "panic" (NOT_REACHED)
    last,          \* observation of the most recent system call
    made,          \* history: per file object, the descriptors made to
                   \* reference it on which close has not been called since
    opens,         \* history: number of successful opens so far
    closed,        \* history: whether the close system call was ever issued
    calls          \* history: number of system calls issued so far

\* src/vm/anon.c
VARIABLES
    swap_table,    \* the bitmap: slot -> BOOLEAN, FALSE = free
    disk,          \* swap_disk: sector number -> sector content
    pages,         \* struct page / anon_page of every anonymous page
    frames,        \* struct frame and the memory at its kva
    swLast,        \* observation of the most recent page operation
    saved,         \* history: per page, what its frame held and which sectors
                   \* were written when it was last swapped out
    swOps          \* history: number of page operations issued so far

\* filesys_lock (src/userprog/syscall.c)
VARIABLES
    filesys_lock,  \* the process holding filesys_lock, NoHolder if none
    pc,            \* per process: where it stands in read / write
    req,           \* per process: the call it is executing
    lkLast         \* per process: how its most recent call ended

FdVars == <<fdTable, fdIdx, stdin_count, stdout_count, dupCount, hstat, pstate,
            last, made, opens, closed, calls>>
SwapVars == <<swap_table, disk, pages, frames, swLast, saved, swOps>>
LockVars == <<filesys_lock, pc, req, lkLast>>

vars == <<FdVars, SwapVars, LockVars>>

\* A step of the descriptor table leaves the other two parts alone.
FdFrame == UNCHANGED <<SwapVars, LockVars>>

\* The part of the process state that close and dup2 transform.
Cur ==
    [t |-> fdTable, si |-> stdin_count, so |-> stdout_count,
     dc |-> dupCount, hs |-> hstat]

InTable(fd) == fd >= 0 /\ fd < FDCOUNT_LIMIT

\* The observation of a call that did nothing observable.
NoCall ==
    [op |-> "none", valid |-> TRUE, a |-> 0, b |-> 0, obj |-> NULL, ret |-> 0,
     returned |-> TRUE, lock |-> FALSE, acc |-> {}, fs |-> {}, h |-> NULL,
     status |-> 0, name |-> FALSE]

\* -------------------------------------------------------- table helpers

\* process_get_file: bounds check, then the stored pointer.
process_get_file(t, fd) ==
    IF fd < 0 \/ fd >= FDCOUNT_LIMIT THEN NULL ELSE t[fd]

\* The table indexes process_get_file(fd) reads.
GetAcc(fd) == IF fd < 0 \/ fd >= FDCOUNT_LIMIT THEN {} ELSE {fd}

\* process_close_file: bounds check, then clear the slot.
process_close_file(t, fd) ==
    IF fd < 0 \/ fd >= FDCOUNT_LIMIT THEN t ELSE [t EXCEPT ![fd] = NULL]

\* The while loop of process_add_file: advance the mark over occupied slots.
RECURSIVE ScanFrom(_, _)
ScanFrom(t, i) ==
    IF i < FDCOUNT_LIMIT /\ t[i] # NULL THEN ScanFrom(t, i + 1) ELSE i

\* A mutant of process_add_file that stores at the mark without scanning.
process_add_file_noscan(t, idx, f) ==
    IF idx >= FDCOUNT_LIMIT
    THEN [fd |-> -1, idx |-> idx, t |-> t]
    ELSE [fd |-> idx, idx |-> idx, t |-> [t EXCEPT ![idx] = f]]

\* A mutant of process_add_file whose full-table test is off by one slot: the
\* last slot is handed out even when it is occupied.
process_add_file_offbyone(t, idx, f) ==
    LET i == ScanFrom(t, idx)
        j == IF i >= FDCOUNT_LIMIT THEN FDCOUNT_LIMIT - 1 ELSE i
    IN  [fd |-> j, idx |-> j, t |-> [t EXCEPT ![j] = f]]

\* process_add_file: the new mark, the descriptor returned and the new table.
process_add_file(t, idx, f) ==
    LET i == ScanFrom(t, idx)
    IN  IF i >= FDCOUNT_LIMIT
        THEN [fd |-> -1, idx |-> i, t |-> t]
        ELSE [fd |-> i, idx |-> i, t |-> [t EXCEPT ![i] = f]]

\* file_close (filesys/file.c): the file object is released.
file_close(hs, f) == [hs EXCEPT ![f] = "closed"]

\* ---------------------------------------------------------------- close

\* close(fd) as a transformer of the process state.
close(s, fd) ==
    LET file_obj == process_get_file(s.t, fd)
        s1 == IF file_obj = STDIN \/ fd = 0
              THEN [s EXCEPT !.si = s.si - 1]
              ELSE IF file_obj = STDOUT \/ fd = 1
                   THEN [s EXCEPT !.so = s.so - 1]
                   ELSE s
        s2 == [s1 EXCEPT !.t = process_close_file(s1.t, fd)]
    IN  IF file_obj = NULL
        THEN s
        ELSE IF fd <= 1 \/ file_obj <= STDOUT
             THEN s1
             ELSE IF s2.dc[file_obj] = 0
                  THEN [s2 EXCEPT !.hs = file_close(s2.hs, file_obj)]
                  ELSE [s2 EXCEPT !.dc[file_obj] = s2.dc[file_obj] - 1]

\* The file-object pointers close(fd) dereferences or hands to the filesystem.
CloseFs(s, fd) ==
    LET file_obj == process_get_file(s.t, fd)
    IN  IF file_obj = NULL \/ fd <= 1 \/ file_obj <= STDOUT
        THEN {}
        ELSE {file_obj}

\* ----------------------------------------------------------------- dup2

\* A mutant of dup2_retain that forgets to count the new alias of a file.
dup2_retain_nocount(s, old_file) ==
    IF old_file = STDIN
    THEN [s EXCEPT !.si = s.si + 1]
    ELSE IF old_file = STDOUT
         THEN [s EXCEPT !.so = s.so + 1]
         ELSE s

\* dup2, the counting of the new alias.
dup2_retain(s, old_file) ==
    IF old_file = STDIN
    THEN [s EXCEPT !.si = s.si + 1]
    ELSE IF old_file = STDOUT
         THEN [s EXCEPT !.so = s.so + 1]
         ELSE [s EXCEPT !.dc[old_file] = s.dc[old_file] + 1]

\* dup2, `fdt[newfd] = old_file`: the store is not bounds-checked.  With newfd
\* outside the table the word written lies outside the table, in kernel memory
\* this model does not hold; the table itself is unchanged, the index is
\* recorded in last.acc and dup2_store_ends gives the ways the call ends.
dup2_store(t, newfd, old_file) ==
    IF newfd \in DOMAIN t THEN [t EXCEPT ![newfd] = old_file] ELSE t

\* How dup2 ends after its store: inside the table it returns; outside, the
\* store either lands on a mapped word of other kernel memory and dup2 returns,
\* or it faults and the kernel panics.
dup2_store_ends(newfd) ==
    IF InTable(newfd) THEN {"ret"} ELSE {"ret", "panic"}

\* dup2(oldfd, newfd) with oldfd resolved and oldfd # newfd.
dup2_body(s, old_file, newfd) ==
    LET s1 == dup2_retain(s, old_file)
        s2 == close(s1, newfd)
    IN  [s2 EXCEPT !.t = dup2_store(s2.t, newfd, old_file)]

\* ------------------------------------------------------------ exploration

\* The process is alive and the run has calls left.
Running == pstate = "running" /\ calls < MaxCalls

\* History: close was called on descriptor fd.
Unmake(m, fd) == [f \in Handles |-> m[f] \ {fd}]

\* History: descriptor fd was made to reference the pointer value v.
Remake(m, fd, v) ==
    IF v \in Handles /\ InTable(fd) THEN [m EXCEPT ![v] = m[v] \cup {fd}] ELSE m

Install(s) ==
    /\ fdTable' = s.t
    /\ stdin_count' = s.si
    /\ stdout_count' = s.so
    /\ dupCount' = s.dc
    /\ hstat' = s.hs

TableVars == <<fdTable, stdin_count, stdout_count, dupCount, hstat>>
HistVars == <<made, opens, closed>>

\* ------------------------------------------------- swap and lock state

\* swap_slot_idx of a page that holds no slot (vm/vm.h), and the value
\* bitmap_scan_and_flip returns when no bit is clear (lib/kernel/bitmap.h).
INVALID_SLOT_IDX == -1
BITMAP_ERROR == -2
\* page->frame of a page without a frame.
NoFrame == 0

Slots == 0..(MaxSlots - 1)
Sectors == 0..(MaxSlots * SECTORS_PER_PAGE - 1)
Offsets == 0..(SECTORS_PER_PAGE - 1)
Pages == 1..MaxPages
Frames == 1..MaxFrames
\* What a sector-sized piece of memory or disk holds: nothing yet, or the
\* data of piece i of page p, so that any mix-up of pages or pieces shows.
Zero == <<0, 0>>
Data(p, i) == <<p, i>>
Blank == [i \in Offsets |-> Zero]

NoPage == [st |-> "none", frame |-> NoFrame, slot |-> INVALID_SLOT_IDX]
NoOp ==
    [op |-> "none", p |-> 0, f |-> 0, ret |-> TRUE, panic |-> FALSE,
     rd |-> {}, wr |-> {}]

\* After vm_anon_init: an empty bitmap over the swap disk, no anonymous page.
SwapInit ==
    /\ swap_table = [k \in Slots |-> FALSE]
    /\ disk = [n \in Sectors |-> Zero]
    /\ pages = [p \in Pages |-> NoPage]
    /\ frames = [f \in Frames |-> [in |-> FALSE, mem |-> Blank]]
    /\ swLast = NoOp
    /\ saved = [p \in Pages |-> [mem |-> Blank, secs |-> {}]]
    /\ swOps = 0

SwCur == [table |-> swap_table, disk |-> disk, pages |-> pages, frames |-> frames]

Procs == 1..MaxProcs

\* After syscall_init: lock_init (&filesys_lock), every process in user code.
NoHolder == 0
NoReq == [op |-> "none", locked |-> FALSE]

LockInit ==
    /\ filesys_lock = NoHolder
    /\ pc = [p \in Procs |-> "user"]
    /\ req = [p \in Procs |-> NoReq]
    /\ lkLast = [p \in Procs |-> "none"]

\* ----------------------------------------------------------------- Init

Init ==
    /\ SwapInit
    /\ LockInit
    /\ fdTable = [i \in Fds |-> IF i = 0 THEN STDIN ELSE IF i = 1 THEN STDOUT ELSE NULL]
    /\ fdIdx = 2
    /\ stdin_count = 1
    /\ stdout_count = 1
    /\ dupCount = [f \in Handles |-> 0]
    /\ hstat = [f \in Handles |-> "unused"]
    /\ pstate = "running"
    /\ last = NoCall
    /\ made = [f \in Handles |-> {}]
    /\ opens = 0
    /\ closed = FALSE
    /\ calls = 0

\* -------------------------------------------------------------- actions

\* check_address failed: exit(-1), the call does not return.
Killed_return(op, fd, n) ==
    /\ pstate' = pstate
    /\ last' = [NoCall EXCEPT !.op = op, !.valid = FALSE, !.a = fd, !.b = n,
                              !.ret = -1]
    /\ UNCHANGED <<TableVars, fdIdx, HistVars>>

Killed(op, fd, n) ==
    /\ pstate' = "exited"
    /\ last' = [NoCall EXCEPT !.op = op, !.valid = FALSE, !.a = fd, !.b = n,
                              !.returned = FALSE, !.status = -1]
    /\ UNCHANGED <<TableVars, fdIdx, HistVars>>

\* A mutant of open that keeps the file object open when the table is full.
open_result_leak(f) ==
    LET r == process_add_file(fdTable, fdIdx, f)
    IN  [fd |-> r.fd, idx |-> r.idx, t |-> r.t,
         hs |-> [hstat EXCEPT ![f] = "open"]]

\* open, after filesys_open returned the file object f.
open_result(f) ==
    LET r == process_add_file(fdTable, fdIdx, f)
        opened == [hstat EXCEPT ![f] = "open"]
    IN  [fd |-> r.fd, idx |-> r.idx, t |-> r.t,
         hs |-> IF r.fd = -1 THEN file_close(opened, f) ELSE opened]

\* open(file): valid = the path pointer passes check_address, exists =
\* filesys_open finds the file and returns a new file object.
Open(valid, exists) ==
    /\ Running
    /\ FdFrame
    /\ calls' = calls + 1
    /\ IF ~valid
       THEN Killed("open", 0, 0)
       ELSE IF ~exists
            THEN /\ last' = [NoCall EXCEPT !.op = "open", !.ret = -1, !.name = TRUE]
                 /\ UNCHANGED <<TableVars, fdIdx, pstate, HistVars>>
            ELSE \E f \in Handles :
                    /\ hstat[f] = "unused"
                    /\ \A g \in Handles : g < f => hstat[g] # "unused"
                    /\ LET r == open_result(f)
                       IN  /\ fdTable' = r.t
                           /\ fdIdx' = r.idx
                           /\ hstat' = r.hs
                           /\ last' = [NoCall EXCEPT !.op = "open", !.ret = r.fd,
                                         !.h = f, !.fs = {f}, !.name = TRUE,
                                         !.acc = fdIdx..(IF r.idx < FDCOUNT_LIMIT
                                                         THEN r.idx ELSE FDCOUNT_LIMIT - 1)]
                           /\ made' = IF r.fd = -1 THEN made ELSE Remake(made, r.fd, f)
                           /\ opens' = IF r.fd = -1 THEN opens ELSE opens + 1
                    /\ UNCHANGED <<stdin_count, stdout_count, dupCount, pstate, closed>>

\* create(file, initial_size) and remove(file): check_address, then the name
\* goes to filesys_create / filesys_remove, whose result (ok) is returned.
Create(valid, ok) ==
    /\ Running
    /\ FdFrame
    /\ calls' = calls + 1
    /\ IF ~valid
       THEN Killed("create", 0, 0)
       ELSE /\ last' = [NoCall EXCEPT !.op = "create", !.ret = ok, !.name = TRUE]
            /\ UNCHANGED <<TableVars, fdIdx, pstate, HistVars>>

Remove(valid, ok) ==
    /\ Running
    /\ FdFrame
    /\ calls' = calls + 1
    /\ IF ~valid
       THEN Killed("remove", 0, 0)
       ELSE /\ last' = [NoCall EXCEPT !.op = "remove", !.ret = ok, !.name = TRUE]
            /\ UNCHANGED <<TableVars, fdIdx, pstate, HistVars>>

\* exec(file_name) as syscall_handler calls it: check_address; without a page
\* for the copy exit(-1); a failing process_exec returns -1 and the handler
\* calls exit(-1); a successful one never returns to this program.
Exec(valid, end) ==
    /\ Running
    /\ FdFrame
    /\ calls' = calls + 1
    /\ IF ~valid
       THEN Killed("exec", 0, 0)
       ELSE /\ pstate' = IF end = "loaded" THEN "replaced" ELSE "exited"
            /\ last' = [NoCall EXCEPT !.op = "exec", !.returned = FALSE,
                                      !.ret = IF end = "loaded" THEN 0 ELSE -1,
                                      !.status = IF end = "loaded" THEN 0 ELSE -1,
                                      !.name = (end # "nopage")]
            /\ UNCHANGED <<TableVars, fdIdx, HistVars>>

\* file_length(file_obj) as filesize calls it.  On a file object it returns the
\* length.  On a stream sentinel it reads through the address 1 or 2, which is
\* no object: the kernel faults (a panic, or the faulting process is killed) or
\* whatever lies there is returned.
file_length_outcomes(file_obj) ==
    IF file_obj <= STDOUT
    THEN {[end |-> "ret", ret |-> n] : n \in Sizes}
         \cup {[end |-> "panic", ret |-> 0], [end |-> "exited", ret |-> 0]}
    ELSE {[end |-> "ret", ret |-> n] : n \in Sizes}

\* filesize(fd).
Filesize(fd) ==
    /\ Running
    /\ FdFrame
    /\ calls' = calls + 1
    /\ LET file_obj == process_get_file(fdTable, fd)
       IN  IF file_obj = NULL
           THEN /\ last' = [NoCall EXCEPT !.op = "filesize", !.a = fd, !.ret = -1,
                                          !.acc = GetAcc(fd)]
                /\ pstate' = pstate
           ELSE \E o \in file_length_outcomes(file_obj) :
                    /\ last' = [NoCall EXCEPT !.op = "filesize", !.a = fd,
                                   !.obj = file_obj, !.ret = o.ret,
                                   !.returned = (o.end = "ret"),
                                   !.acc = GetAcc(fd), !.fs = {file_obj}]
                    /\ pstate' = IF o.end = "ret" THEN pstate ELSE o.end
    /\ UNCHANGED <<TableVars, fdIdx, HistVars>>

\* A mutant of read_outcome that goes to file_read without the lock.
read_outcome_nolock(file_obj, cnt, n) ==
    IF file_obj = NULL
    THEN [end |-> "ret", ret |-> -1, lock |-> FALSE, fs |-> {}]
    ELSE IF file_obj = STDIN
         THEN [end |-> "ret", ret |-> n, lock |-> FALSE, fs |-> {}]
         ELSE IF file_obj = STDOUT
              THEN [end |-> "ret", ret |-> -1, lock |-> FALSE, fs |-> {}]
              ELSE [end |-> "ret", ret |-> n, lock |-> FALSE, fs |-> {file_obj}]

\* The outcome of read once the buffer is validated and fd resolved to
\* file_obj: how it ends, what it returns (n is what the console or the
\* filesystem delivered), whether filesys_lock was taken, what reached the
\* filesystem.
read_outcome(file_obj, cnt, n) ==
    IF file_obj = NULL
    THEN [end |-> "ret", ret |-> -1, lock |-> FALSE, fs |-> {}]
    ELSE IF file_obj = STDIN
         THEN IF cnt = 0
              THEN [end |-> "panic", ret |-> 0, lock |-> FALSE, fs |-> {}]
              ELSE [end |-> "ret", ret |-> n, lock |-> FALSE, fs |-> {}]
         ELSE IF file_obj = STDOUT
              THEN [end |-> "ret", ret |-> -1, lock |-> FALSE, fs |-> {}]
              ELSE [end |-> "ret", ret |-> n, lock |-> TRUE, fs |-> {file_obj}]

\* A mutant of write_outcome without the input-stream test: the sentinel goes
\* on to file_write under the lock.
write_outcome_nostdin(file_obj, cnt, size, n) ==
    IF file_obj = NULL
    THEN [end |-> "ret", ret |-> -1, lock |-> FALSE, fs |-> {}]
    ELSE IF file_obj = STDOUT
         THEN IF cnt = 0
              THEN [end |-> "panic", ret |-> 0, lock |-> FALSE, fs |-> {}]
              ELSE [end |-> "ret", ret |-> size, lock |-> FALSE, fs |-> {}]
         ELSE [end |-> "ret", ret |-> n, lock |-> TRUE, fs |-> {file_obj}]

\* The outcome of write, as read_outcome.
write_outcome(file_obj, cnt, size, n) ==
    IF file_obj = NULL
    THEN [end |-> "ret", ret |-> -1, lock |-> FALSE, fs |-> {}]
    ELSE IF file_obj = STDOUT
         THEN IF cnt = 0
              THEN [end |-> "panic", ret |-> 0, lock |-> FALSE, fs |-> {}]
              ELSE [end |-> "ret", ret |-> size, lock |-> FALSE, fs |-> {}]
         ELSE IF file_obj = STDIN
              THEN [end |-> "ret", ret |-> -1, lock |-> FALSE, fs |-> {}]
              ELSE [end |-> "ret", ret |-> n, lock |-> TRUE, fs |-> {file_obj}]

\* The end of a read or write call with outcome o.
Finish(op, fd, size, file_obj, o) ==
    /\ pstate' = IF o.end = "panic" THEN "panic" ELSE pstate
    /\ last' = [NoCall EXCEPT !.op = op, !.a = fd, !.b = size, !.obj = file_obj,
                              !.ret = o.ret, !.returned = (o.end = "ret"),
                              !.lock = o.lock, !.acc = GetAcc(fd), !.fs = o.fs]
    /\ UNCHANGED <<TableVars, fdIdx, HistVars>>

\* read(fd, buffer, size).
Read(valid, fd, size) ==
    /\ Running
    /\ FdFrame
    /\ calls' = calls + 1
    /\ IF ~valid
       THEN Killed("read", fd, size)
       ELSE \E n \in 0..size :
                Finish("read", fd, size, process_get_file(fdTable, fd),
                       read_outcome(process_get_file(fdTable, fd), stdin_count, n))

\* write(fd, buffer, size).
Write(valid, fd, size) ==
    /\ Running
    /\ FdFrame
    /\ calls' = calls + 1
    /\ IF ~valid
       THEN Killed("write", fd, size)
       ELSE \E n \in 0..size :
                Finish("write", fd, size, process_get_file(fdTable, fd),
                       write_outcome(process_get_file(fdTable, fd), stdout_count, size, n))

\* seek(fd, position): a pointer value <= 2 is skipped, otherwise the cursor
\* field of the object is written.
Seek(fd, position) ==
    /\ Running
    /\ FdFrame
    /\ calls' = calls + 1
    /\ LET file_obj == process_get_file(fdTable, fd)
       IN  last' = [NoCall EXCEPT !.op = "seek", !.a = fd, !.b = position,
                                  !.obj = file_obj, !.acc = GetAcc(fd),
                                  !.fs = IF file_obj <= STDOUT THEN {} ELSE {file_obj}]
    /\ UNCHANGED <<TableVars, fdIdx, pstate, HistVars>>

\* tell(fd): a pointer value <= 2 returns without a value (whatever the
\* register holds), otherwise file_tell.
Tell(fd) ==
    /\ Running
    /\ FdFrame
    /\ calls' = calls + 1
    /\ LET file_obj == process_get_file(fdTable, fd)
       IN  \E p \in Sizes :
               last' = [NoCall EXCEPT !.op = "tell", !.a = fd, !.obj = file_obj,
                                      !.ret = p, !.acc = GetAcc(fd),
                                      !.fs = IF file_obj <= STDOUT THEN {} ELSE {file_obj}]
    /\ UNCHANGED <<TableVars, fdIdx, pstate, HistVars>>

\* close(fd), the system call.
Close(fd) ==
    /\ Running
    /\ FdFrame
    /\ calls' = calls + 1
    /\ LET s == close(Cur, fd)
       IN  /\ Install(s)
           /\ last' = [NoCall EXCEPT !.op = "close", !.a = fd,
                                     !.obj = process_get_file(fdTable, fd),
                                     !.acc = GetAcc(fd), !.fs = CloseFs(Cur, fd)]
    /\ made' = Unmake(made, fd)
    /\ closed' = TRUE
    /\ UNCHANGED <<fdIdx, pstate, opens>>

\* dup2(oldfd, newfd).
Dup2(oldfd, newfd) ==
    /\ Running
    /\ FdFrame
    /\ calls' = calls + 1
    /\ LET old_file == process_get_file(fdTable, oldfd)
           seen == GetAcc(oldfd)
       IN  IF old_file = NULL
           THEN /\ last' = [NoCall EXCEPT !.op = "dup2", !.a = oldfd, !.b = newfd,
                                          !.ret = -1, !.acc = seen]
                /\ UNCHANGED <<TableVars, made, pstate>>
           ELSE IF oldfd = newfd
                THEN /\ last' = [NoCall EXCEPT !.op = "dup2", !.a = oldfd, !.b = newfd,
                                               !.obj = old_file, !.ret = newfd,
                                               !.acc = seen]
                     /\ UNCHANGED <<TableVars, made, pstate>>
                ELSE LET s1 == dup2_retain(Cur, old_file)
                         s == dup2_body(Cur, old_file, newfd)
                     IN  \E e \in dup2_store_ends(newfd) :
                           /\ Install(s)
                           /\ pstate' = IF e = "ret" THEN pstate ELSE e
                           /\ last' = [NoCall EXCEPT !.op = "dup2", !.a = oldfd,
                                          !.b = newfd, !.obj = old_file, !.ret = newfd,
                                          !.returned = (e = "ret"),
                                          !.acc = seen \cup {newfd},
                                          !.fs = (IF old_file <= STDOUT THEN {}
                                                  ELSE {old_file})
                                                 \cup CloseFs(s1, newfd)]
                           /\ made' = Remake(Unmake(made, newfd), newfd, old_file)
    /\ UNCHANGED <<fdIdx, opens, closed>>

Next ==
    \/ \E valid \in BOOLEAN, exists \in BOOLEAN : Open(valid, exists)
    \/ \E valid \in BOOLEAN, ok \in 0..1 : Create(valid, ok)
    \/ \E valid \in BOOLEAN, ok \in 0..1 : Remove(valid, ok)
    \/ \E valid \in BOOLEAN, end \in {"nopage", "failed", "loaded"} : Exec(valid, end)
    \/ \E fd \in FdArgs : Filesize(fd)
    \/ \E valid \in BOOLEAN, fd \in FdArgs, size \in Sizes : Read(valid, fd, size)
    \/ \E valid \in BOOLEAN, fd \in FdArgs, size \in Sizes : Write(valid, fd, size)
    \/ \E fd \in FdArgs, position \in Sizes : Seek(fd, position)
    \/ \E fd \in FdArgs : Tell(fd)
    \/ \E fd \in FdArgs : Close(fd)
    \/ \E oldfd \in FdArgs, newfd \in FdArgs : Dup2(oldfd, newfd)

Spec == Init /\ [][Next]_vars

\* ------------------------------------------------------- anonymous pages

\* sec_no of piece i of a slot (anon_swap_in, anon_swap_out).
SectorOf_nostride(slot, i) == slot + i
SectorOf(slot, i) == slot * SECTORS_PER_PAGE + i
SlotSectors(slot) == {SectorOf(slot, i) : i \in Offsets}

\* bitmap_scan_and_flip (swap_table, 0, 1, false): the lowest clear bit is
\* set and returned, BITMAP_ERROR when every bit is set.
bitmap_scan_and_flip_first(tbl) ==
    [idx |-> 0, table |-> [tbl EXCEPT ![0] = TRUE]]
bitmap_scan_and_flip(tbl) ==
    IF \A k \in Slots : tbl[k]
    THEN [idx |-> BITMAP_ERROR, table |-> tbl]
    ELSE LET k == CHOOSE j \in Slots :
                      ~tbl[j] /\ \A i \in Slots : i < j => tbl[i]
         IN  [idx |-> k, table |-> [tbl EXCEPT ![k] = TRUE]]

bitmap_set(tbl, idx, value) == [tbl EXCEPT ![idx] = value]

anon_initializer(pg) ==
    [pg EXCEPT !.st = "live", !.slot = INVALID_SLOT_IDX]

\* anon_swap_in (page, kva) with kva the memory of frame f.
anon_swap_in_keepbit(s, p, f) ==
    LET idx == s.pages[p].slot
    IN  IF idx = INVALID_SLOT_IDX
        THEN [s |-> s, ret |-> FALSE, rd |-> {}]
        ELSE [s |-> [s EXCEPT
                       !.frames[f].mem = [i \in Offsets |-> s.disk[SectorOf(idx, i)]],
                       !.pages[p].slot = INVALID_SLOT_IDX],
              ret |-> TRUE, rd |-> SlotSectors(idx)]
anon_swap_in(s, p, f) ==
    LET idx == s.pages[p].slot
    IN  IF idx = INVALID_SLOT_IDX
        THEN [s |-> s, ret |-> FALSE, rd |-> {}]
        ELSE [s |-> [s EXCEPT
                       !.frames[f].mem = [i \in Offsets |-> s.disk[SectorOf(idx, i)]],
                       !.table = bitmap_set(s.table, idx, FALSE),
                       !.pages[p].slot = INVALID_SLOT_IDX],
              ret |-> TRUE, rd |-> SlotSectors(idx)]

\* anon_swap_out (page): the slot is taken before the frame is looked at.
anon_swap_out(s, p) ==
    LET r == bitmap_scan_and_flip(s.table)
        f == s.pages[p].frame
    IN  IF r.idx = BITMAP_ERROR
        THEN [s |-> s, ret |-> FALSE, panic |-> TRUE, wr |-> {}]
        ELSE IF f = NoFrame
        THEN [s |-> [s EXCEPT !.table = r.table],
              ret |-> FALSE, panic |-> FALSE, wr |-> {}]
        ELSE [s |-> [s EXCEPT
                       !.table = r.table,
                       !.disk = [n \in Sectors |->
                                   IF n \in SlotSectors(r.idx)
                                   THEN s.frames[f].mem[n - SectorOf(r.idx, 0)]
                                   ELSE s.disk[n]],
                       !.pages[p].slot = r.idx,
                       !.pages[p].frame = NoFrame],
              ret |-> TRUE, panic |-> FALSE, wr |-> SlotSectors(r.idx)]

\* anon_destroy (page): the frame is released if there is one, the slot
\* otherwise; the page itself is gone afterwards.
anon_destroy_keepframe(s, p) ==
    LET pg == s.pages[p]
    IN  IF pg.frame # NoFrame
        THEN [s |-> [s EXCEPT !.pages[p] = [NoPage EXCEPT !.st = "dead"]],
              panic |-> FALSE]
        ELSE IF pg.slot = INVALID_SLOT_IDX
        THEN [s |-> s, panic |-> TRUE]
        ELSE [s |-> [s EXCEPT !.table = bitmap_set(s.table, pg.slot, FALSE),
                              !.pages[p] = [NoPage EXCEPT !.st = "dead"]],
              panic |-> FALSE]
anon_destroy(s, p) ==
    LET pg == s.pages[p]
    IN  IF pg.frame # NoFrame
        THEN [s |-> [s EXCEPT !.frames[pg.frame].in = FALSE,
                              !.pages[p] = [NoPage EXCEPT !.st = "dead"]],
              panic |-> FALSE]
        ELSE IF pg.slot = INVALID_SLOT_IDX
        THEN [s |-> s, panic |-> TRUE]
        ELSE [s |-> [s EXCEPT !.table = bitmap_set(s.table, pg.slot, FALSE),
                              !.pages[p] = [NoPage EXCEPT !.st = "dead"]],
              panic |-> FALSE]

Live(p) == pages[p].st = "live"
Resident(p) == Live(p) /\ pages[p].frame # NoFrame
Swapped(p) == Live(p) /\ pages[p].frame = NoFrame
\* A frame no live page is linked to: a new one or one whose page left it.
FreeFrame(f) == \A p \in Pages : ~(Live(p) /\ pages[p].frame = f)

SwRunning == ~swLast.panic /\ swOps < MaxSwapOps

SwInstall(s) ==
    /\ swap_table' = s.table
    /\ disk' = s.disk
    /\ pages' = s.pages
    /\ frames' = s.frames

SwFrame == UNCHANGED <<FdVars, LockVars>>

\* The first claim of a new anonymous page: the fault handler links a frame to
\* it, anon_initializer runs, and the page's data is put into the frame.
CreatePage(p, f) ==
    /\ SwRunning /\ SwFrame /\ swOps' = swOps + 1
    /\ pages[p].st = "none"
    /\ \A q \in Pages : q < p => pages[q].st # "none"
    /\ FreeFrame(f)
    /\ pages' = [pages EXCEPT ![p] = anon_initializer([NoPage EXCEPT !.frame = f])]
    /\ frames' = [frames EXCEPT ![f] = [in |-> TRUE,
                                        mem |-> [i \in Offsets |-> Data(p, i)]]]
    /\ swLast' = [NoOp EXCEPT !.op = "create", !.p = p, !.f = f]
    /\ UNCHANGED <<swap_table, disk, saved>>

SwapOut(p) ==
    /\ SwRunning /\ SwFrame /\ swOps' = swOps + 1
    /\ Live(p)
    /\ LET r == anon_swap_out(SwCur, p)
       IN  /\ SwInstall(r.s)
           /\ swLast' = [NoOp EXCEPT !.op = "swap_out", !.p = p,
                                     !.f = pages[p].frame, !.ret = r.ret,
                                     !.panic = r.panic, !.wr = r.wr]
           /\ saved' = IF r.ret
                       THEN [saved EXCEPT ![p] = [mem |-> frames[pages[p].frame].mem,
                                                  secs |-> r.wr]]
                       ELSE saved

\* swap_in on page p: a page without a frame is first given a free one by the
\* fault handler, a page with a frame is read into the frame it has.
SwapIn(p, f) ==
    /\ SwRunning /\ SwFrame /\ swOps' = swOps + 1
    /\ Live(p)
    /\ IF pages[p].frame = NoFrame THEN FreeFrame(f) ELSE f = pages[p].frame
    /\ LET linked == [SwCur EXCEPT !.pages[p].frame = f, !.frames[f].in = TRUE]
           r == anon_swap_in(linked, p, f)
       IN  /\ SwInstall(IF r.ret THEN r.s ELSE SwCur)
           /\ swLast' = [NoOp EXCEPT !.op = "swap_in", !.p = p, !.f = f,
                                     !.ret = r.ret, !.rd = r.rd]
    /\ UNCHANGED saved

Destroy(p) ==
    /\ SwRunning /\ SwFrame /\ swOps' = swOps + 1
    /\ Live(p)
    /\ LET r == anon_destroy(SwCur, p)
       IN  /\ SwInstall(r.s)
           /\ swLast' = [NoOp EXCEPT !.op = "destroy", !.p = p,
                                     !.f = pages[p].frame, !.panic = r.panic]
    /\ UNCHANGED saved

SwapNext ==
    \/ \E p \in Pages, f \in Frames : CreatePage(p, f)
    \/ \E p \in Pages : SwapOut(p)
    \/ \E p \in Pages, f \in Frames : SwapIn(p, f)
    \/ \E p \in Pages : Destroy(p)

SwapSpec == Init /\ [][SwapNext]_vars

\* ------------------------------------------------------ filesystem lock

\* lock_release (&filesys_lock) by process p, and a mutant that keeps it.
lock_release_skip(l, p) == l
lock_release(l, p) == IF l = p THEN NoHolder ELSE l

\* read or write up to its first blocking point, in a process whose streams
\* are open.
rw_outcome(op, file_obj, size) ==
    IF op = "read"
    THEN read_outcome(file_obj, 1, size)
    ELSE write_outcome(file_obj, 1, size, size)

LockFrame == UNCHANGED <<FdVars, SwapVars>>

\* Process p calls read or write on a descriptor that resolves to file_obj
\* (nothing, a stream, or a file object): check_address, the stream cases; a
\* file object goes on to lock_acquire.
LockCall(p, op, valid, file_obj) ==
    /\ LockFrame
    /\ pc[p] = "user"
    /\ UNCHANGED filesys_lock
    /\ IF ~valid
       THEN /\ pc' = [pc EXCEPT ![p] = "exited"]
            /\ lkLast' = [lkLast EXCEPT ![p] = "killed"]
            /\ UNCHANGED req
       ELSE LET o == rw_outcome(op, file_obj, MaxLen)
            IN  IF o.fs = {}
                THEN /\ lkLast' = [lkLast EXCEPT ![p] =
                                     IF o.ret = -1 THEN "fail" ELSE "console"]
                     /\ UNCHANGED <<pc, req>>
                ELSE /\ pc' = [pc EXCEPT ![p] = IF o.lock THEN "acquire" ELSE "io"]
                     /\ req' = [req EXCEPT ![p] = [op |-> op, locked |-> o.lock]]
                     /\ lkLast' = [lkLast EXCEPT ![p] = "none"]

\* lock_acquire (&filesys_lock) returns in p: nobody holds the lock.
LockAcquire(p) ==
    /\ LockFrame
    /\ pc[p] = "acquire"
    /\ filesys_lock = NoHolder
    /\ filesys_lock' = p
    /\ pc' = [pc EXCEPT ![p] = "io"]
    /\ UNCHANGED <<req, lkLast>>

\* file_read or file_write finishes in p, lock_release, return.
LockIoDone(p) ==
    /\ LockFrame
    /\ pc[p] = "io"
    /\ filesys_lock' = IF req[p].locked THEN lock_release(filesys_lock, p)
                       ELSE filesys_lock
    /\ pc' = [pc EXCEPT ![p] = "user"]
    /\ req' = [req EXCEPT ![p] = NoReq]
    /\ lkLast' = [lkLast EXCEPT ![p] = "io"]

LockNext ==
    \/ \E p \in Procs, op \in {"read", "write"}, valid \in BOOLEAN,
          file_obj \in {NULL, STDIN, STDOUT, STDOUT + 1} :
            LockCall(p, op, valid, file_obj)
    \/ \E p \in Procs : LockAcquire(p)
    \/ \E p \in Procs : LockIoDone(p)

LockSpec == Init /\ [][LockNext]_vars

\* file_read and file_write return, and lock_acquire serves every waiter.
LockLiveSpec ==
    /\ Init /\ [][LockNext]_vars
    /\ \A p \in Procs : WF_vars(LockIoDone(p)) /\ SF_vars(LockAcquire(p))

\* ------------------------------------------------------------ properties

\* C1: for descriptors a # b inside the table with a resolving to a file
\* object, after dup2(a, b) both get(a) and get(b) return that object and it is
\* open; close on a descriptor leaves every other descriptor of the same object
\* resolving to it, still open; and an object is released only in a step after
\* which no slot references it, so no slot ever holds a released object.
C1_Dup2SharesHandle ==
    [][ /\ (last'.op = "dup2" /\ last'.a # last'.b /\ InTable(last'.b)
              /\ last'.obj \in Handles)
           => /\ process_get_file(fdTable', last'.a) = last'.obj
              /\ process_get_file(fdTable', last'.b) = last'.obj
              /\ hstat'[last'.obj] = "open"
        /\ last'.op = "close"
           => \A a \in Fds :
                 (a # last'.a /\ fdTable[a] \in Handles
                    /\ fdTable[a] = process_get_file(fdTable, last'.a))
                 => /\ process_get_file(fdTable', a) = fdTable[a]
                    /\ hstat'[fdTable[a]] = "open"
        /\ \A f \in Handles :
              (hstat[f] = "open" /\ hstat'[f] = "closed")
              => \A i \in Fds : fdTable'[i] # f
        /\ \A i \in Fds : fdTable'[i] \in Handles => hstat'[fdTable'[i]] = "open"
      ]_vars

\* C1 witness: close(b) has just run on one of two descriptors of an open file
\* object, and the other still resolves to it.
C1_Witness ==
    /\ last.op = "close"
    /\ last.obj \in Handles
    /\ fdTable[last.a] = NULL
    /\ \E a \in Fds : a # last.a /\ fdTable[a] = last.obj /\ hstat[last.obj] = "open"

\* C2: the alias count of every open file object is the number of slots that
\* point at it, minus one.
C2_AliasCount ==
    \A f \in Handles :
        hstat[f] = "open"
        => dupCount[f] = Cardinality({i \in Fds : fdTable[i] = f}) - 1

\* C3: a file object on whose every descriptor (made by open or dup2, at any
\* index) close has been called is released and referenced by no slot.
C3_LastCloseReleases ==
    \A f \in Handles :
        (hstat[f] # "unused" /\ made[f] = {})
        => /\ hstat[f] = "closed"
           /\ \A i \in Fds : fdTable[i] # f

\* C4: close on a descriptor whose slot holds a stream sentinel decrements the
\* counter of the stream the sentinel denotes by one and changes neither the
\* other counter, nor an alias count, nor the set of open file objects.
C4_CloseStreamOnly ==
    [][ (last'.op = "close"
           /\ process_get_file(fdTable, last'.a) \in {STDIN, STDOUT})
        => /\ stdin_count' = stdin_count
                 - (IF process_get_file(fdTable, last'.a) = STDIN THEN 1 ELSE 0)
           /\ stdout_count' = stdout_count
                 - (IF process_get_file(fdTable, last'.a) = STDOUT THEN 1 ELSE 0)
           /\ dupCount' = dupCount
           /\ hstat' = hstat
      ]_vars

\* C5: write with a valid buffer on a descriptor that resolves to the output
\* stream returns exactly the requested length and does not take the
\* filesystem lock.
C5_WriteStdoutReturnsLength ==
    (last.op = "write" /\ last.valid /\ last.obj = STDOUT)
    => (last.returned /\ last.ret = last.b /\ ~last.lock)

\* C6: with a valid buffer, write on a descriptor resolving to the input
\* stream and read on a descriptor resolving to the output stream return -1,
\* take no lock, hand nothing to the filesystem and leave the table and the
\* stream counters as they were.
C6_WrongDirectionFails ==
    [][ (last'.valid
           /\ \/ (last'.op = "write" /\ process_get_file(fdTable, last'.a) = STDIN)
              \/ (last'.op = "read" /\ process_get_file(fdTable, last'.a) = STDOUT))
        => /\ last'.returned
           /\ last'.ret = -1
           /\ ~last'.lock
           /\ last'.fs = {}
           /\ fdTable' = fdTable
           /\ stdin_count' = stdin_count
           /\ stdout_count' = stdout_count
           /\ pstate' = pstate
      ]_vars

\* C6 witness: write was refused on a descriptor that dup2 pointed at the
\* input stream.
C6_Witness ==
    /\ last.op = "write"
    /\ last.valid
    /\ last.a >= 2
    /\ last.obj = STDIN
    /\ last.ret = -1

\* C7: in a process that has made FDCOUNT_LIMIT - 2 successful opens and no
\* close, an open that finds its file returns -1, leaves every slot as it was
\* and releases the file object it had just obtained.
C7_FullTableOpenFails ==
    [][ (opens = FDCOUNT_LIMIT - 2 /\ ~closed /\ last'.op = "open"
           /\ last'.h # NULL)
        => /\ last'.returned
           /\ last'.ret = -1
           /\ fdTable' = fdTable
           /\ hstat'[last'.h] = "closed"
           /\ \A i \in Fds : fdTable'[i] # last'.h
      ]_vars

\* C7 witness: the open after FDCOUNT_LIMIT - 2 successful opens has failed.
C7_Witness ==
    /\ last.op = "open"
    /\ last.h # NULL
    /\ last.ret = -1
    /\ opens = FDCOUNT_LIMIT - 2
    /\ ~closed
    /\ \A i \in Fds : i >= 2 => fdTable[i] \in Handles

\* C8: a successful add stores into a slot that was empty and get of the
\* returned descriptor yields the added object; an occupied slot changes only
\* in close of that descriptor or in dup2 with that descriptor as target.
C8_AddThenGet ==
    [][ /\ (last'.op = "open" /\ last'.h # NULL /\ last'.ret # -1)
           => /\ InTable(last'.ret)
              /\ fdTable[last'.ret] = NULL
              /\ process_get_file(fdTable', last'.ret) = last'.h
        /\ \A i \in Fds :
              (fdTable[i] # NULL
                 /\ process_get_file(fdTable', i) # process_get_file(fdTable, i))
              => \/ (last'.op = "close" /\ last'.a = i)
                 \/ (last'.op = "dup2" /\ last'.b = i)
      ]_vars

\* C8 witness: an open has scanned past an occupied slot and get of the
\* descriptor it returned yields the new object.
C8_Witness ==
    /\ last.op = "open"
    /\ last.ret > 2
    /\ process_get_file(fdTable, last.ret) = last.h
    /\ fdTable[2] \in Handles

\* C9: every table location a call reads or writes has an index in
\* [0, FDCOUNT_LIMIT).
C9_IndexInTable == \A i \in last.acc : InTable(i)

\* C10: no call dereferences a stream sentinel or hands it to the filesystem
\* as a file object.
C10_NoSentinelToFilesystem == last.fs \cap {STDIN, STDOUT} = {}

\* Steps of the swap model, told apart by the operation they record.
SwStep(op) == swOps' # swOps /\ swLast'.op = op
HoldsSlot(p) == Live(p) /\ pages[p].slot # INVALID_SLOT_IDX
SetBits == {k \in Slots : swap_table[k]}

\* C11: a swap-in of a swapped-out page, whatever was done to other pages
\* since its swap-out, leaves the frame it is given with the content the
\* page's frame held at swap-out, and reads exactly the SECTORS_PER_PAGE
\* sectors from slot * SECTORS_PER_PAGE on, which are the ones swap-out wrote.
C11_RoundTrip ==
    [][(SwStep("swap_in") /\ swLast'.ret) =>
         LET p == swLast'.p
             f == swLast'.f
         IN  /\ frames'[f].mem = saved[p].mem
             /\ swLast'.rd = saved[p].secs
             /\ swLast'.rd = {pages[p].slot * SECTORS_PER_PAGE + i : i \in Offsets}
             /\ pages'[p].frame = f]_vars

\* A page swapped in with its own data while another page is swapped out.
C11_Witness ==
    /\ swLast.op = "swap_in" /\ swLast.ret
    /\ frames[swLast.f].mem = [i \in Offsets |-> Data(swLast.p, i)]
    /\ \E q \in Pages : q # swLast.p /\ Swapped(q) /\ pages[q].slot # INVALID_SLOT_IDX

\* C12: a live page's slot index is invalid exactly when it has a frame, and
\* a swap-table bit is set exactly when some live page is swapped into it.
C12_SlotBitInvariant ==
    /\ \A p \in Pages :
         Live(p) => (pages[p].slot = INVALID_SLOT_IDX <=> pages[p].frame # NoFrame)
    /\ \A k \in Slots :
         swap_table[k] <=> \E p \in Pages : Swapped(p) /\ pages[p].slot = k

\* C13: no two pages hold the same slot; a swap-out takes a slot whose bit was
\* clear and writes no sector of a slot another page holds; with every bit set
\* it panics, writes nothing and leaves the bitmap as it was.
C13_NoSlotReuse ==
    [][/\ \A p, q \in Pages :
            (p # q /\ pages'[p].st = "live" /\ pages'[q].st = "live"
               /\ pages'[p].slot # INVALID_SLOT_IDX)
            => pages'[p].slot # pages'[q].slot
       /\ SwStep("swap_out") =>
            /\ (\A k \in Slots : swap_table[k]) =>
                 /\ swLast'.panic /\ swLast'.wr = {}
                 /\ swap_table' = swap_table /\ disk' = disk /\ pages' = pages
            /\ swLast'.ret =>
                 /\ ~swap_table[pages'[swLast'.p].slot]
                 /\ swLast'.wr = SlotSectors(pages'[swLast'.p].slot)
            /\ \A q \in Pages : \A n \in Sectors :
                 (HoldsSlot(q) /\ n \in SlotSectors(pages[q].slot))
                 => disk'[n] = disk[n]]_vars

\* Swap-out panics on a full bitmap that two swapped-out pages fill.
C13_Witness ==
    /\ swLast.op = "swap_out" /\ swLast.panic
    /\ \A k \in Slots : swap_table[k]
    /\ \E p, q \in Pages : /\ Swapped(p) /\ Swapped(q)
                           /\ pages[p].slot = 0 /\ pages[q].slot = 1

\* C14: destroy of a page with a frame takes the frame off the frame list and
\* leaves the bitmap alone; destroy of a swapped-out page clears the bit of its
\* slot and no other, and leaves every frame alone; nothing else happens.
C14_DestroyOnePath ==
    [][SwStep("destroy") =>
         LET p == swLast'.p
         IN  /\ ~swLast'.panic
             /\ pages'[p].st = "dead"
             /\ disk' = disk
             /\ \A q \in Pages : q # p => pages'[q] = pages[q]
             /\ Resident(p) =>
                  /\ swap_table' = swap_table
                  /\ ~frames'[pages[p].frame].in
                  /\ \A g \in Frames : g # pages[p].frame => frames'[g] = frames[g]
             /\ Swapped(p) =>
                  /\ swap_table[pages[p].slot] /\ ~swap_table'[pages[p].slot]
                  /\ \A k \in Slots : k # pages[p].slot => swap_table'[k] = swap_table[k]
                  /\ frames' = frames]_vars

\* A swapped-out page destroyed while another page keeps its slot and a third
\* its frame.
C14_Witness ==
    /\ swLast.op = "destroy" /\ swLast.f = NoFrame
    /\ SetBits # {}
    /\ \E q \in Pages : Resident(q)

\* C15: swap-in of a page whose slot index is invalid fails, reads no sector
\* and changes nothing; swap-in of a swapped-out page succeeds, clears the bit
\* of its slot and no other, and makes the slot index invalid.
C15_SwapInCases ==
    [][SwStep("swap_in") =>
         LET p == swLast'.p
         IN  /\ pages[p].slot = INVALID_SLOT_IDX =>
                  /\ ~swLast'.ret /\ swLast'.rd = {}
                  /\ UNCHANGED <<swap_table, disk, pages, frames>>
             /\ pages[p].slot # INVALID_SLOT_IDX =>
                  /\ swLast'.ret
                  /\ swap_table[pages[p].slot] /\ ~swap_table'[pages[p].slot]
                  /\ \A k \in Slots : k # pages[p].slot => swap_table'[k] = swap_table[k]
                  /\ pages'[p].slot = INVALID_SLOT_IDX
                  /\ disk' = disk]_vars

\* A swap-in refused on a resident page while another page is swapped out.
C15_Witness ==
    /\ swLast.op = "swap_in" /\ ~swLast.ret
    /\ Resident(swLast.p)
    /\ \E q \in Pages : Swapped(q) /\ swap_table[pages[q].slot]

\* C19: a swap-out that returns false leaves the bitmap and the page's slot
\* index as they were, and the set bits are as many as the pages holding a slot.
C19_FailedSwapOutNoEffect ==
    [][/\ (SwStep("swap_out") /\ ~swLast'.ret /\ ~swLast'.panic) =>
            /\ swap_table' = swap_table
            /\ pages'[swLast'.p].slot = pages[swLast'.p].slot
       /\ Cardinality({k \in Slots : swap_table'[k]})
            = Cardinality({p \in Pages : pages'[p].st = "live"
                                          /\ pages'[p].slot # INVALID_SLOT_IDX})]_vars

\* C16: at most one process at a time is inside file_read or file_write, and
\* that process holds filesys_lock.
C16_OneInFilesystem ==
    /\ \A p, q \in Procs : (pc[p] = "io" /\ pc[q] = "io") => p = q
    /\ \A p \in Procs : pc[p] = "io" => filesys_lock = p

\* One process reads a file while another waits to write.
C16_Witness ==
    \E p, q \in Procs : /\ pc[p] = "io" /\ req[p].op = "read"
                        /\ pc[q] = "acquire" /\ req[q].op = "write"

C18_PointerCheckedFirst ==
    [][(calls' # calls /\ ~last'.valid) =>
         /\ last'.op \in {"create", "remove", "exec", "open", "read", "write"}
         /\ pstate' = "exited" /\ last'.status = -1 /\ ~last'.returned
         /\ UNCHANGED <<fdTable, fdIdx, stdin_count, stdout_count, dupCount, hstat>>
         /\ UNCHANGED filesys_lock
         /\ ~last'.lock /\ last'.fs = {} /\ last'.acc = {} /\ ~last'.name]_vars

\* write with a bad buffer and a descriptor outside the table, in a process
\* that has an open file with an alias.
C18_Witness ==
    /\ last.op = "write" /\ ~last.valid /\ ~InTable(last.a)
    /\ pstate = "exited" /\ last.status = -1
    /\ \E f \in Handles : hstat[f] = "open" /\ dupCount[f] = 1

\* C20: the stream counters are never negative, and a close leaves a counter
\* that is zero at zero.
C20_ClosedStreamStaysClosed ==
    [][/\ stdin_count' >= 0 /\ stdout_count' >= 0
       /\ (calls' # calls /\ last'.op = "close") =>
            /\ stdin_count = 0 => stdin_count' = 0
            /\ stdout_count = 0 => stdout_count' = 0]_vars

====
